---- MODULE Spec2Model ----
(***************************************************************************)
(* Model of ito_backup.py: the batch of rsync jobs, the per-target          *)
(* generation ring <target_path>/<folder>.<k> (purge, shift, allocate),    *)
(* the sync with its link-dest, the happy flag and the byte totals.        *)
(*                                                                         *)
(* One behaviour is a sequence of runs of the script over the same disk.   *)
(* The script is sequential: pc is the line it stands at.                  *)
(***************************************************************************)
EXTENDS Integers, Sequences, FiniteSets, TLC

\* ------------------------------------------------------------------ bounds

\* Largest small rotate_level a job is configured with.
MaxDepth == 3
\* Number of runs of the script in one behaviour.
MaxRuns == 3
\* Number of environment failures (rsync exit status, unparsable report,
\* OSError of rmtree / rename / mkdir / makedirs) in one behaviour.
MaxFaults == 2
\* Largest number of generations a small ring holds before the first run.
MaxInitGens == 2

\* --------------------------------------------------------- program constants

\* range(rotate_level-1, 99): the purge stops before index 99.
PurgeCeiling == 99

\* config.sections(): the General section and one section per job.
sections == <<"General", "j1", "j2">>
JobNames == {"j1", "j2"}
FolderNames == {"a", "b", "c"}

\* What the remote host lists for a job (stdout.split() keeps repeats).
Listings == {<< >>, <<"a">>, <<"a", "b">>, <<"a", "a">>, <<"a", "b", "c">>}

\* The byte count rsync reports ("total size is <n>") for each module.
SizeOf ==
    [f \in FolderNames |->
        IF f = "a" THEN 1048576 ELSE IF f = "b" THEN 2097152 ELSE 4194304]

\* rotate_level values: the small ones and the first one beyond the ceiling.
RotateLevels == (1..MaxDepth) \cup {PurgeCeiling + 1}

NoLink == << >>

VARIABLES
    mount_check,   \* config General/mount_check
    ismount,       \* os.path.ismount(backup_folder)
    backup_isdir,  \* os.path.isdir(backup_folder)
    remote,        \* job -> the folders its host lists
    rotate_level,  \* job -> config rotate_level
    tp,            \* jobs whose target_path directory exists
    fs,            \* job -> folder -> ring: index -> directory
    origin,        \* fs as it was before the first run
    pc,            \* the line the script stands at
    run,           \* number of the current run of the script
    runs,          \* runs of the script in this behaviour
    faults,        \* environment failures so far
    jobIdx,        \* position of `job` in config.sections()
    folders,       \* the discovery result of the current job
    tIdx,          \* position of `bytecoded_folder` in folders
    xpos,          \* position of x in the shift loop's range
    happy,
    total,
    subtotal,
    status,        \* exit status of the run (-1: still running)
    subject,       \* subject of the notification ("" before, "none": smtp off)
    handed,        \* the flag _email_log was called with (after the call)
    errors,        \* except-blocks entered in this run
    cyc,           \* the rotation+sync cycle in progress or just ended
    discTried,     \* positions of the jobs whose discovery was attempted
    discFailed,    \* positions of the jobs whose discovery failed
    listed,        \* <<job position, number of folders discovered>>
    tried,         \* <<job position, folder position>> whose try block ran
    start,         \* the disk as it was when the run began
    outcome,       \* <<job position, folder position, how its cycle ended>>
    reported,      \* <<job position, subtotal>> of the jobs that ended
    rotOk,         \* job -> folder -> cycles whose rotation succeeded so far
    rotBad         \* <<job, folder>> with a cycle that failed in its rotation

vars == <<mount_check, ismount, backup_isdir, remote, rotate_level, tp, fs,
          origin, pc, run, runs, faults, jobIdx, folders, tIdx, xpos, happy, total,
          subtotal, status, subject, handed, errors, cyc, discTried,
          discFailed, listed, tried, start, outcome, reported, rotOk,
          rotBad>>

\* What no statement of the script changes.
config == <<mount_check, ismount, backup_isdir, remote, rotate_level, runs,
            origin>>
ghosts == <<discTried, discFailed, listed, tried, start>>
records == <<outcome, reported, rotOk, rotBad>>

\* ------------------------------------------------------------------ rings

\* A directory <folder>.<i>: who created it and what its sync left in it.
\* Every entry <folder>.<i> on disk is a directory (os.path.isdir holds).
\* st: "new" (just created, empty), "partial" (sync failed), "complete".
Dir(id, st) == [id |-> id, st |-> st]

EmptyRing == [i \in {} |-> Dir(<<0, 0, 0>>, "complete")]

\* Generations 0..n-1 left by earlier successful runs.
OldRing(n) == [i \in 0..(n - 1) |-> Dir(<<0, 0, i>>, "complete")]

\* shutil.rmtree of the generations at the indices in S.
Remove(ring, S) == [i \in (DOMAIN ring) \ S |-> ring[i]]

\* os.rename(<folder>.x, <folder>.x+1), whatever was at x+1 replaced.
Move(ring, x) ==
    [i \in ((DOMAIN ring) \ {x}) \cup {x + 1} |->
        IF i = x + 1 THEN ring[x] ELSE ring[i]]

Put(ring, i, d) == [j \in (DOMAIN ring) \cup {i} |-> IF j = i THEN d ELSE ring[j]]

Ids(ring) == {ring[i].id : i \in DOMAIN ring}

\* Faulty variants of the purge range: only the oldest slot (no overshoot),
\* one slot too many, one slot too few.
PurgeRangeNoOvershoot(n) == {n - 1}
PurgeRangeOneEarly(n) == (n - 2)..(PurgeCeiling - 1)
PurgeRangeOneLate(n) == n..(PurgeCeiling - 1)

\* range(rotate_level-1, 99)
PurgeRange(n) == (n - 1)..(PurgeCeiling - 1)

\* Faulty variant of the shift: ascending, 0, 1, ..., n-2.
ShiftOrderAscending(n) == [i \in 1..(n - 1) |-> i - 1]

\* range(rotate_level - 2, -1, -1) as the sequence n-2, n-3, ..., 0
ShiftOrder(n) == [i \in 1..(n - 1) |-> n - 1 - i]

\* Faulty variant: link_src taken from the ring as it was before the shift.
LinkSourceBeforeShift(now, before) == before

\* link_src = <folder>.1 of the ring as it is when the parameters are built;
\* before is the ring as it was when the cycle began.
LinkSource(now, before) == now

LinkDest(ring) == IF 1 \in DOMAIN ring THEN ring[1].id ELSE NoLink

\* ---------------------------------------------------------------- helpers

job == sections[jobIdx]
folder == folders[tIdx]
ring == fs[job][folder]
level == rotate_level[job]

SetRing(r) == [fs EXCEPT ![job][folder] = r]

\* Faulty variant: the script exits whenever the volume is not mounted,
\* whatever mount_check says.
MountCheckIgnoresSetting(check, mounted) == ~mounted

\* Lines 106-107: mount_check is 'true' and backup_folder is no mount point.
MountCheckFails(check, mounted) == check /\ ~mounted

\* Faulty variant: the shift runs before the purge.
StepOrderShiftFirst == <<"shift", "purge", "allocate", "sync">>

\* The statements of the try block after the sanity check, top to bottom:
\* purge (171-174), shift (179-184), allocate (189-190), sync (195-220).
StepOrder == <<"purge", "shift", "allocate", "sync">>

\* The statement that follows `step` when `step` raises nothing.
StepAfter(step) ==
    StepOrder[(CHOOSE i \in 1..(Len(StepOrder) - 1) : StepOrder[i] = step) + 1]

\* Faulty variant: total = subtotal.
AddSubtotalOverwrite(t, s) == s

\* total += subtotal
AddSubtotal(t, s) == t + s

\* Faulty variant: the except block leaves the target loop.
AfterErrorBreak(i, len) == len + 1

\* `continue` of the target loop after the except block / the else block.
AfterError(i, len) == i + 1

\* Faulty variant: the except block leaves happy as it is.
HappyOnErrorKept(h) == h

\* happy = False in an except block.
HappyOnError(h) == FALSE

\* Faulty variants: the except block falls through to the target loop;
\* the except block leaves the job loop.
AfterDiscoveryErrorFallThrough == "target"
JobAfterDiscoveryErrorBreak(i) == Len(sections) + 1

\* `continue` of the discovery's except block: back to the job loop,
AfterDiscoveryError == "job"

\* at the next section.
JobAfterDiscoveryError(i) == i + 1

\* The steps of the rotation (lines 171-190).
RotationSteps == {"purge", "shift", "allocate"}

NoCycle ==
    [job |-> "", folder |-> "", pos |-> 0, n |-> 0, pre |-> EmptyRing,
     phase |-> "none", rotated |-> FALSE, link |-> NoLink, clobber |-> FALSE, result |-> ""]

\* The except block of the target loop (lines 222-225), entered from `step`.
TargetError(step, newfs, c) ==
    /\ happy' = HappyOnError(happy)
    /\ errors' = errors + 1
    /\ fs' = newfs
    /\ cyc' = [c EXCEPT !.phase = "failed", !.result = step]
    /\ tIdx' = AfterError(tIdx, Len(folders))
    /\ pc' = "target"
    /\ outcome' = outcome \cup {<<jobIdx, tIdx, step>>}
    /\ rotBad' = IF step \in RotationSteps
                     THEN rotBad \cup {<<job, folder>>} ELSE rotBad
    /\ UNCHANGED <<reported, rotOk>>

\* mime['Subject'] of _email_log (lines 44-53); "none": smtp_enable is off.
Subject(smtp_enable, flag) ==
    IF ~smtp_enable THEN "none"
    ELSE IF flag THEN "Backup complete" ELSE "BACKUP FAILED"

\* ------------------------------------------------------------------- Init

\* The script stands before the mount check. total and happy are not read
\* before lines 112-113 assign them; they hold those values from the start.
InitCommon ==
    /\ pc = "mount"
    /\ run = 1
    /\ jobIdx = 1
    /\ folders = << >>
    /\ tIdx = 1
    /\ xpos = 1
    /\ happy = TRUE
    /\ total = 0
    /\ subtotal = 0
    /\ status = -1
    /\ subject = ""
    /\ handed = TRUE
    /\ errors = 0
    /\ cyc = NoCycle
    /\ discTried = {}
    /\ discFailed = {}
    /\ listed = {}
    /\ tried = {}
    /\ outcome = {}
    /\ reported = {}
    /\ rotOk = [j \in JobNames |-> [f \in FolderNames |-> 0]]
    /\ rotBad = {}

\* The backup volume is there and the mount check is off.
PlainVolume ==
    /\ mount_check = FALSE
    /\ ismount = TRUE
    /\ backup_isdir = TRUE

\* One target whose ring was left by a rotate_level at the purge ceiling
\* or one beyond it; the environment does not fail.
InitDeep ==
    /\ PlainVolume
    /\ remote = [j \in JobNames |-> IF j = "j1" THEN <<"a">> ELSE << >>]
    /\ \E d \in RotateLevels :
          rotate_level = [j \in JobNames |-> IF j = "j1" THEN d ELSE 1]
    /\ \E g \in {PurgeCeiling, PurgeCeiling + 1} :
          fs = [j \in JobNames |-> [f \in FolderNames |->
                   IF j = "j1" /\ f = "a" THEN OldRing(g) ELSE EmptyRing]]
    /\ tp = {"j1"}
    /\ runs = MaxRuns
    /\ faults = MaxFaults

\* One target, run after run, in an environment that may fail.
InitHistory ==
    /\ PlainVolume
    /\ remote = [j \in JobNames |-> IF j = "j1" THEN <<"a">> ELSE << >>]
    /\ \E d \in 1..MaxDepth :
          rotate_level = [j \in JobNames |-> IF j = "j1" THEN d ELSE 1]
    /\ \E g \in 0..MaxInitGens :
          /\ fs = [j \in JobNames |-> [f \in FolderNames |->
                      IF j = "j1" /\ f = "a" THEN OldRing(g) ELSE EmptyRing]]
          /\ tp = IF g > 0 THEN {"j1"} ELSE {}
    /\ runs = MaxRuns
    /\ faults = 0

\* One run of a batch of two jobs, every ring holding one earlier
\* generation, on a volume that may be missing or not mounted.
InitBatch ==
    /\ mount_check \in BOOLEAN
    /\ ismount \in BOOLEAN
    /\ backup_isdir \in BOOLEAN
    /\ ismount => backup_isdir
    /\ remote \in {r \in [JobNames -> Listings] : Len(r["j2"]) <= 1}
    /\ \E d \in 1..MaxDepth : rotate_level = [j \in JobNames |-> d]
    /\ fs = [j \in JobNames |-> [f \in FolderNames |->
                IF backup_isdir THEN OldRing(1) ELSE EmptyRing]]
    /\ tp = IF backup_isdir THEN JobNames ELSE {}
    /\ runs = 1
    /\ faults = 0

Init ==
    /\ InitCommon
    /\ (InitDeep \/ InitHistory \/ InitBatch)
    /\ start = [fs |-> fs, tp |-> tp]
    /\ origin = fs


\* ------------------------------------------------------------ mount check

\* Lines 106-110: the volume is not mounted: mail the log, exit 1.
MountFail ==
    /\ pc = "mount"
    /\ MountCheckFails(mount_check, ismount)
    /\ \E smtp_enable \in BOOLEAN : subject' = Subject(smtp_enable, FALSE)
    /\ handed' = FALSE
    /\ status' = 1
    /\ pc' = "exit"
    /\ UNCHANGED <<config, tp, fs, run, faults, jobIdx, folders, tIdx, xpos,
                   happy, total, subtotal, errors, cyc, ghosts,
                   records>>

\* Lines 106-113: the check passes or is off; total = 0, happy = True.
BatchBegin ==
    /\ pc = "mount"
    /\ ~MountCheckFails(mount_check, ismount)
    /\ total' = 0
    /\ happy' = TRUE
    /\ jobIdx' = 1
    /\ pc' = "job"
    /\ UNCHANGED <<config, tp, fs, run, faults, folders, tIdx, xpos,
                   subtotal, status, subject, handed, errors, cyc, ghosts,
                   records>>

\* --------------------------------------------------------------- job loop

\* Lines 115-117: the General section is skipped.
SkipGeneral ==
    /\ pc = "job"
    /\ jobIdx <= Len(sections)
    /\ job = "General"
    /\ jobIdx' = jobIdx + 1
    /\ UNCHANGED <<config, tp, fs, pc, run, faults, folders, tIdx, xpos,
                   happy, total, subtotal, status, subject, handed, errors,
                   cyc, ghosts,
                   records>>

\* Lines 118-128: the job's settings are read.
JobBegin ==
    /\ pc = "job"
    /\ jobIdx <= Len(sections)
    /\ job # "General"
    /\ pc' = "discover"
    /\ UNCHANGED <<config, tp, fs, run, faults, jobIdx, folders, tIdx, xpos,
                   happy, total, subtotal, status, subject, handed, errors,
                   cyc, ghosts,
                   records>>

\* Lines 129-139, 146: the listing exits 0; folders = stdout.split().
DiscoverOk ==
    /\ pc = "discover"
    /\ folders' = remote[job]
    /\ subtotal' = 0
    /\ tIdx' = 1
    /\ pc' = "target"
    /\ discTried' = discTried \cup {jobIdx}
    /\ listed' = listed \cup {<<jobIdx, Len(remote[job])>>}
    /\ UNCHANGED <<config, tp, fs, run, faults, jobIdx, xpos, happy, total,
                   status, subject, handed, errors, cyc, discFailed, tried,
                   start, records>>

\* Lines 136-137, 140-144: the listing exits non-zero (or cannot be run).
DiscoverFail ==
    /\ pc = "discover"
    /\ faults < MaxFaults
    /\ faults' = faults + 1
    /\ happy' = HappyOnError(happy)
    /\ errors' = errors + 1
    /\ discTried' = discTried \cup {jobIdx}
    /\ discFailed' = discFailed \cup {jobIdx}
    /\ pc' = AfterDiscoveryError
    /\ tIdx' = 1
    /\ jobIdx' = IF AfterDiscoveryError = "job"
                     THEN JobAfterDiscoveryError(jobIdx) ELSE jobIdx
    /\ UNCHANGED <<config, tp, fs, run, folders, xpos, total, subtotal,
                   status, subject, handed, cyc, listed, tried, start,
                   records>>

\* Lines 148, 227-228: the target loop ends; total += subtotal.
JobEnd ==
    /\ pc = "target"
    /\ tIdx > Len(folders)
    /\ total' = AddSubtotal(total, subtotal)
    /\ reported' = reported \cup {<<jobIdx, subtotal>>}
    /\ jobIdx' = jobIdx + 1
    /\ pc' = "job"
    /\ UNCHANGED <<config, tp, fs, run, faults, folders, tIdx, xpos, happy,
                   subtotal, status, subject, handed, errors, cyc, ghosts,
                   outcome, rotOk, rotBad>>


\* ------------------------------------------------------------ target loop

NewCycle ==
    [job |-> job, folder |-> folder, pos |-> tIdx, n |-> level, pre |-> ring,
     phase |-> "rotating", rotated |-> FALSE, link |-> NoLink,
     clobber |-> FALSE, result |-> ""]

\* Lines 148-162: backup_folder is not a directory: RsyncError.
SanityFail ==
    /\ pc = "target"
    /\ tIdx <= Len(folders)
    /\ ~backup_isdir
    /\ tried' = tried \cup {<<jobIdx, tIdx>>}
    /\ TargetError("sanity", fs, NewCycle)
    /\ UNCHANGED <<config, tp, run, faults, jobIdx, folders, xpos, total,
                   subtotal, status, subject, handed, discTried, discFailed,
                   listed, start>>

\* Lines 163-164: os.makedirs(target_path) raises.
MakedirsFail ==
    /\ pc = "target"
    /\ tIdx <= Len(folders)
    /\ backup_isdir
    /\ job \notin tp
    /\ faults < MaxFaults
    /\ faults' = faults + 1
    /\ tried' = tried \cup {<<jobIdx, tIdx>>}
    /\ TargetError("makedirs", fs, NewCycle)
    /\ UNCHANGED <<config, tp, run, jobIdx, folders, xpos, total, subtotal,
                   status, subject, handed, discTried, discFailed, listed,
                   start>>

\* Lines 148-164: the sanity check passes; target_path exists afterwards.
TargetBegin ==
    /\ pc = "target"
    /\ tIdx <= Len(folders)
    /\ backup_isdir
    /\ tp' = tp \cup {job}
    /\ tried' = tried \cup {<<jobIdx, tIdx>>}
    /\ cyc' = NewCycle
    /\ pc' = StepOrder[1]
    /\ UNCHANGED <<config, fs, run, faults, jobIdx, folders, tIdx, xpos,
                   happy, total, subtotal, status, subject, handed, errors,
                   discTried, discFailed, listed, start, records>>

\* ------------------------------------------------------------------ purge

\* Lines 171-174: every directory at an index of the range is removed.
PurgeOk ==
    /\ pc = "purge"
    /\ fs' = SetRing(Remove(ring, PurgeRange(level)))
    /\ xpos' = 1
    /\ pc' = StepAfter("purge")
    /\ UNCHANGED <<config, tp, run, faults, jobIdx, folders, tIdx, happy,
                   total, subtotal, status, subject, handed, errors, cyc,
                   ghosts,
                   records>>

\* Line 174: shutil.rmtree raises at index r: the directories below r of the
\* range are gone, r is still there (whole, or with part of its tree gone).
PurgeFail ==
    /\ pc = "purge"
    /\ faults < MaxFaults
    /\ faults' = faults + 1
    /\ \E r \in (DOMAIN ring) \cap PurgeRange(level) :
       \E st \in {ring[r].st, "partial"} :
          TargetError("purge",
              SetRing([Remove(ring, {i \in PurgeRange(level) : i < r})
                          EXCEPT ![r].st = st]),
              cyc)
    /\ UNCHANGED <<config, tp, run, jobIdx, folders, xpos, total, subtotal,
                   status, subject, handed, ghosts>>

\* ------------------------------------------------------------------ shift

x == ShiftOrder(level)[xpos]

\* Line 179: the range is exhausted.
ShiftDone ==
    /\ pc = "shift"
    /\ xpos > Len(ShiftOrder(level))
    /\ pc' = StepAfter("shift")
    /\ UNCHANGED <<config, tp, fs, run, faults, jobIdx, folders, tIdx, xpos,
                   happy, total, subtotal, status, subject, handed, errors,
                   cyc, ghosts,
                   records>>

\* Line 183: <folder>.x is no directory.
ShiftSkip ==
    /\ pc = "shift"
    /\ xpos <= Len(ShiftOrder(level))
    /\ x \notin DOMAIN ring
    /\ xpos' = xpos + 1
    /\ UNCHANGED <<config, tp, fs, pc, run, faults, jobIdx, folders, tIdx,
                   happy, total, subtotal, status, subject, handed, errors,
                   cyc, ghosts,
                   records>>

\* Line 184: os.rename moves x to x+1. A destination that exists is replaced
\* when it is an empty directory (rename(2)).
ShiftRename ==
    /\ pc = "shift"
    /\ xpos <= Len(ShiftOrder(level))
    /\ x \in DOMAIN ring
    /\ fs' = SetRing(Move(ring, x))
    /\ cyc' = [cyc EXCEPT !.clobber = @ \/ (x + 1 \in DOMAIN ring)]
    /\ xpos' = xpos + 1
    /\ UNCHANGED <<config, tp, pc, run, faults, jobIdx, folders, tIdx, happy,
                   total, subtotal, status, subject, handed, errors, ghosts,
                   records>>

\* Line 184: the destination exists and is not empty: OSError.
ShiftCollide ==
    /\ pc = "shift"
    /\ xpos <= Len(ShiftOrder(level))
    /\ x \in DOMAIN ring
    /\ x + 1 \in DOMAIN ring
    /\ TargetError("shift", fs, [cyc EXCEPT !.clobber = TRUE])
    /\ UNCHANGED <<config, tp, run, faults, jobIdx, folders, xpos, total,
                   subtotal, status, subject, handed, ghosts>>

\* Line 184: os.rename raises for another reason.
ShiftFail ==
    /\ pc = "shift"
    /\ xpos <= Len(ShiftOrder(level))
    /\ x \in DOMAIN ring
    /\ faults < MaxFaults
    /\ faults' = faults + 1
    /\ TargetError("shift", fs, cyc)
    /\ UNCHANGED <<config, tp, run, jobIdx, folders, xpos, total, subtotal,
                   status, subject, handed, ghosts>>

\* --------------------------------------------------------------- allocate

\* Lines 189-190: os.mkdir(<folder>.0).
AllocateOk ==
    /\ pc = "allocate"
    /\ 0 \notin DOMAIN ring
    /\ fs' = SetRing(Put(ring, 0, Dir(<<run, jobIdx, tIdx>>, "new")))
    /\ cyc' = [cyc EXCEPT !.phase = "rotated", !.rotated = TRUE]
    /\ rotOk' = [rotOk EXCEPT ![job][folder] = @ + 1]
    /\ pc' = StepAfter("allocate")
    /\ UNCHANGED <<config, tp, run, faults, jobIdx, folders, tIdx, xpos,
                   happy, total, subtotal, status, subject, handed, errors,
                   ghosts, outcome, reported, rotBad>>

\* Line 190: os.mkdir raises: <folder>.0 exists, or another OSError.
AllocateFail ==
    /\ pc = "allocate"
    /\ IF 0 \in DOMAIN ring
          THEN faults' = faults
          ELSE faults < MaxFaults /\ faults' = faults + 1
    /\ TargetError("allocate", fs, cyc)
    /\ UNCHANGED <<config, tp, run, jobIdx, folders, xpos, total, subtotal,
                   status, subject, handed, ghosts>>

\* ------------------------------------------------------------------- sync

\* Lines 202-204: the --link-dest parameter, if any.
link_src == LinkDest(LinkSource(ring, cyc.pre))

\* Lines 209-220: rsync exits 0 and its report holds "total size is <n>".
SyncOk ==
    /\ pc = "sync"
    /\ fs' = SetRing([ring EXCEPT ![0].st = "complete"])
    /\ subtotal' = subtotal + SizeOf[folder]
    /\ cyc' = [cyc EXCEPT !.phase = "synced", !.result = "ok",
                          !.link = link_src]
    /\ tIdx' = tIdx + 1
    /\ pc' = "target"
    /\ outcome' = outcome \cup {<<jobIdx, tIdx, "ok">>}
    /\ UNCHANGED <<config, tp, run, faults, jobIdx, folders, xpos, happy,
                   total, status, subject, handed, errors, ghosts, reported,
                   rotOk, rotBad>>

\* Lines 214-215: rsync exits non-zero (or cannot be run).
SyncFail ==
    /\ pc = "sync"
    /\ faults < MaxFaults
    /\ faults' = faults + 1
    /\ TargetError("sync", SetRing([ring EXCEPT ![0].st = "partial"]),
                   [cyc EXCEPT !.link = link_src])
    /\ UNCHANGED <<config, tp, run, jobIdx, folders, xpos, total, subtotal,
                   status, subject, handed, ghosts>>

\* Lines 217-218: rsync exits 0, the report does not match SIZE_RE:
\* match_obj is None and .group raises.
SyncNoParse ==
    /\ pc = "sync"
    /\ faults < MaxFaults
    /\ faults' = faults + 1
    /\ TargetError("parse", SetRing([ring EXCEPT ![0].st = "complete"]),
                   [cyc EXCEPT !.link = link_src])
    /\ UNCHANGED <<config, tp, run, jobIdx, folders, xpos, total, subtotal,
                   status, subject, handed, ghosts>>

\* -------------------------------------------------------------- batch end

\* Lines 230-233: the log is mailed with the happy flag; the script ends.
Finish ==
    /\ pc = "job"
    /\ jobIdx > Len(sections)
    /\ handed' = happy
    /\ \E smtp_enable \in BOOLEAN : subject' = Subject(smtp_enable, happy)
    /\ status' = 0
    /\ pc' = "exit"
    /\ UNCHANGED <<config, tp, fs, run, faults, jobIdx, folders, tIdx, xpos,
                   happy, total, subtotal, errors, cyc, ghosts,
                   records>>

\* The script is started again (the next scheduled run): a new process.
Rerun ==
    /\ pc = "exit"
    /\ run < runs
    /\ run' = run + 1
    /\ pc' = "mount"
    /\ jobIdx' = 1
    /\ folders' = << >>
    /\ tIdx' = 1
    /\ xpos' = 1
    /\ happy' = TRUE
    /\ total' = 0
    /\ subtotal' = 0
    /\ status' = -1
    /\ subject' = ""
    /\ handed' = TRUE
    /\ errors' = 0
    /\ cyc' = NoCycle
    /\ discTried' = {}
    /\ discFailed' = {}
    /\ listed' = {}
    /\ tried' = {}
    /\ start' = [fs |-> fs, tp |-> tp]
    /\ outcome' = {}
    /\ reported' = {}
    /\ UNCHANGED <<config, tp, fs, faults, rotOk, rotBad>>

Next ==
    \/ MountFail \/ BatchBegin
    \/ SkipGeneral \/ JobBegin \/ DiscoverOk \/ DiscoverFail \/ JobEnd
    \/ SanityFail \/ MakedirsFail \/ TargetBegin
    \/ PurgeOk \/ PurgeFail
    \/ ShiftDone \/ ShiftSkip \/ ShiftRename \/ ShiftCollide \/ ShiftFail
    \/ AllocateOk \/ AllocateFail
    \/ SyncOk \/ SyncFail \/ SyncNoParse
    \/ Finish \/ Rerun

Spec == Init /\ [][Next]_vars

\* The script runs to its end: every call it makes returns.
FairSpec == Spec /\ WF_vars(Next)


\* ================================================================ claims

\* The ring of the cycle in progress or just ended.
CycRing == fs[cyc.job][cyc.folder]

\* The rotation of the cycle succeeded and its sync has ended.
CycleCompleted == cyc.rotated /\ cyc.phase \in {"synced", "failed"}

\* The ring held generations at every index 0..K before the cycle.
PreFullTo(K) == DOMAIN cyc.pre = 0..K

\* ---------------------------------------------------------------- C1

\* C1 as stated: after each completed rotation+sync cycle at depth N the
\* existing generation indices are a subset of [0, N-1], whatever depth
\* left the ring on disk.
C1_AnyPriorDepth ==
    CycleCompleted => DOMAIN CycRing \subseteq 0..(cyc.n - 1)

\* C1 amended: after each completed rotation+sync cycle at depth N every
\* existing generation index is in [0, N-1], except for generations that
\* were already at an index >= 99 before the cycle (the purge stops at 98);
\* so a ring left by a larger depth M <= 99 is cut to [0, N-1] by the first
\* completed cycle.
C1_IndicesBelowDepth ==
    CycleCompleted =>
        DOMAIN CycRing \subseteq
            (0..(cyc.n - 1)) \cup {i \in DOMAIN cyc.pre : i >= PurgeCeiling}

\* A completed cycle at a depth lower than the one that left the ring.
C1_Witness ==
    /\ CycleCompleted
    /\ \E i \in DOMAIN cyc.pre : cyc.n <= i /\ i < PurgeCeiling
    /\ DOMAIN CycRing \subseteq 0..(cyc.n - 1)

\* ---------------------------------------------------------------- C2

\* Generation 0 is a directory made by this cycle, still empty.
FreshZero ==
    /\ 0 \in DOMAIN ring
    /\ ring[0].st = "new"
    /\ ring[0].id \notin Ids(cyc.pre)

\* C2 as stated: after a successful rotation generation 0 is new and empty,
\* and generation 1 exists iff generation 0 existed before, being that
\* directory.
C2_OneIffOldZero ==
    pc = "sync" =>
        /\ FreshZero
        /\ (1 \in DOMAIN ring) <=> (0 \in DOMAIN cyc.pre)
        /\ (1 \in DOMAIN ring) => ring[1] = cyc.pre[0]

\* C2 amended: after a successful rotation generation 0 is new and empty;
\* for depth N >= 2 generation 1 exists iff generation 0 existed before the
\* rotation, and is then that same directory; for N = 1 no generation 1
\* exists (the old generation 0 was purged).
C2_AfterRotation ==
    pc = "sync" =>
        /\ FreshZero
        /\ cyc.n >= 2 => ((1 \in DOMAIN ring) <=> (0 \in DOMAIN cyc.pre))
        /\ cyc.n = 1 => 1 \notin DOMAIN ring
        /\ (1 \in DOMAIN ring) =>
              (0 \in DOMAIN cyc.pre /\ ring[1] = cyc.pre[0])

\* A rotation that moved the old generation 0 to index 1.
C2_Witness ==
    /\ pc = "sync"
    /\ 0 \in DOMAIN cyc.pre
    /\ 1 \in DOMAIN ring
    /\ ring[1] = cyc.pre[0]
    /\ ring[0].st = "new"

\* ---------------------------------------------------------------- C3

\* C3 as stated: generation 1 after a rotation (the link-dest of the sync)
\* is a generation whose own sync finished successfully.
C3_LinkDestCompleted ==
    (pc = "sync" /\ 1 \in DOMAIN ring) => ring[1].st = "complete"

\* ---------------------------------------------------------------- C4

\* C4: a link-dest passed to the sync is the directory that was generation
\* 0 before the cycle's rotation, never the one that was generation 1; and
\* none is passed when no generation 0 existed before the cycle.
C4_LinkDestAfterShift ==
    (cyc.rotated /\ cyc.result \in {"ok", "sync", "parse"}) =>
        /\ cyc.link # NoLink =>
              /\ 0 \in DOMAIN cyc.pre
              /\ cyc.link = cyc.pre[0].id
              /\ 1 \in DOMAIN cyc.pre => cyc.link # cyc.pre[1].id
        /\ 0 \notin DOMAIN cyc.pre => cyc.link = NoLink

\* A sync that got the old generation 0 as link-dest while an older
\* generation 1 was on disk too.
C4_Witness ==
    /\ cyc.result = "ok"
    /\ {0, 1} \subseteq DOMAIN cyc.pre
    /\ cyc.link = cyc.pre[0].id

\* ---------------------------------------------------------------- C5

\* Each generation that was at an index in [0, N-2] is one index higher.
Advanced ==
    \A i \in 0..(cyc.n - 2) :
        i \in DOMAIN cyc.pre =>
            (i + 1 \in DOMAIN CycRing /\ CycRing[i + 1] = cyc.pre[i])

\* C5 as stated: from generations at every index 0..K, K >= N-1, one
\* rotation leaves no generation at any index >= N-1 and advances each
\* generation of [0, N-2] by one.
C5_NoneFromOldestSlot ==
    (cyc.rotated /\ \E K \in (cyc.n - 1)..(PurgeCeiling + 1) : PreFullTo(K)) =>
        /\ \A i \in DOMAIN CycRing : i < cyc.n - 1
        /\ Advanced

\* C5 amended: from generations at every index 0..K, N-1 <= K <= 98, one
\* rotation deletes every generation that was at an index >= N-1, leaves
\* no index >= N occupied, and advances each generation of [0, N-2] by one.
C5_PurgeBeforeShift ==
    (cyc.rotated /\ \E K \in (cyc.n - 1)..(PurgeCeiling - 1) : PreFullTo(K)) =>
        /\ \A i \in DOMAIN cyc.pre :
              i >= cyc.n - 1 => cyc.pre[i].id \notin Ids(CycRing)
        /\ \A i \in DOMAIN CycRing : i <= cyc.n - 1
        /\ Advanced

\* A rotation at depth >= 2 of a ring that was full up to the last index
\* the purge reaches.
C5_Witness ==
    /\ cyc.rotated
    /\ cyc.n >= 2
    /\ PreFullTo(PurgeCeiling - 1)
    /\ Advanced

\* ---------------------------------------------------------------- C6

\* With generations at every index 0..N-1 before the cycle, a completed
\* rotation has every one of 0..N-2 one index higher and has lost N-1 only.
ShiftKeepsAllButOldest ==
    (cyc.rotated /\ PreFullTo(cyc.n - 1)) =>
        /\ Advanced
        /\ cyc.pre[cyc.n - 1].id \notin Ids(CycRing)

\* C6 as stated: for every depth N no rename of the shift has an existing
\* generation as its destination, and a full ring 0..N-1 loses only N-1.
C6_NoRenameOntoGeneration ==
    /\ ~cyc.clobber
    /\ ShiftKeepsAllButOldest

\* C6 within the reach of the purge: for a depth N <= 99 no rename of the
\* shift has an existing generation as its destination, and a full ring
\* 0..N-1 loses only the content formerly at N-1.
C6_ShiftDescending ==
    cyc.n <= PurgeCeiling =>
        /\ ~cyc.clobber
        /\ ShiftKeepsAllButOldest

\* A rotation of a full ring 0..N-1, N >= 2, that renamed every generation.
C6_Witness ==
    /\ cyc.rotated
    /\ cyc.n >= 2
    /\ cyc.n <= PurgeCeiling
    /\ PreFullTo(cyc.n - 1)
    /\ Advanced


\* ---------------------------------------------------------------- C7

InCycle == pc \in {"purge", "shift", "allocate", "sync"}

\* Positions of the current job's folders whose try block has been entered.
TriedHere == {t \in 1..Len(folders) : <<jobIdx, t>> \in tried}

\* The target loop goes through the folders one by one, whatever failed:
\* when a cycle has ended, failed or not, the loop stands at the folder after
\* it, and when a job has ended every folder it discovered was attempted.
NoTargetSkipped ==
    /\ (pc = "target" /\ cyc.phase \in {"failed", "synced"} /\ cyc.job = job)
          => tIdx = cyc.pos + 1
    /\ (pc = "target" \/ InCycle) =>
          TriedHere = 1..(IF InCycle THEN tIdx ELSE tIdx - 1)
    /\ \A e \in listed :
          e[1] < jobIdx => \A t \in 1..e[2] : <<e[1], t>> \in tried

\* A step changes the generation ring of the target being processed only.
OnlyOwnRing ==
    \A j \in JobNames : \A f \in FolderNames :
        fs'[j][f] # fs[j][f] => (InCycle /\ j = job /\ f = folder)

\* C7: a rotation, sync or parse failure on target B does not keep any
\* target discovered after B from being rotated and synced, and processing
\* B leaves the generation directories of every other target unchanged.
C7_FailureIsolation == []NoTargetSkipped /\ [][OnlyOwnRing]_vars

\* The second target of job j1 was synced after its first target failed.
C7_Witness ==
    /\ jobIdx = 2
    /\ discFailed = {}
    /\ errors = 1
    /\ cyc.phase = "synced"
    /\ cyc.pos = 2
    /\ fs["j1"]["a"] # start.fs["j1"]["a"]

\* ---------------------------------------------------------------- C8

JobPositions == {i \in 1..Len(sections) : sections[i] # "General"}

\* Every job's discovery and every discovered target's cycle was attempted.
AllAttempted ==
    /\ discTried = JobPositions
    /\ discTried \ discFailed = {e[1] : e \in listed}
    /\ \A e \in listed : \A t \in 1..e[2] : <<e[1], t>> \in tried

PassedMountCheck == pc = "job" /\ jobIdx = 1

HandedOver == pc = "exit" /\ status = 0 /\ subject # ""

\* C8: once the batch has passed the mount check, every job's discovery
\* and every discovered target's rotation+sync is eventually attempted,
\* whatever failed before, and the batch ends by handing its result to the
\* notifier.
C8_BestEffort == PassedMountCheck ~> (HandedOver /\ AllAttempted)

\* A batch that was handed over after the first target of job j1 failed,
\* its second target was synced and the discovery of job j2 failed.
C8_Witness ==
    /\ HandedOver
    /\ AllAttempted
    /\ discFailed = {3}
    /\ cyc.job = "j1"
    /\ cyc.phase = "synced"
    /\ cyc.pos = 2
    /\ errors = 2

\* ---------------------------------------------------------------- C9

\* C9: a discovery failure aborts that job only: none of its targets is
\* rotated or synced, nothing under its target_path changes, happy is
\* false, and the next configured job still runs.
C9_DiscoveryFailure ==
    \A i \in discFailed :
        /\ \A e \in tried : e[1] # i
        /\ fs[sections[i]] = start.fs[sections[i]]
        /\ (sections[i] \in tp) <=> (sections[i] \in start.tp)
        /\ ~happy
        /\ i < Len(sections) =>
              \/ jobIdx = i + 1 /\ pc \in {"job", "discover"}
              \/ i + 1 \in discTried
        /\ pc = "exit" => (status = 0 /\ AllAttempted)

\* Job j1's discovery failed and job j2's target was synced after it.
C9_Witness ==
    /\ discFailed = {2}
    /\ <<3, 1>> \in tried
    /\ cyc.job = "j2"
    /\ cyc.phase = "synced"
    /\ fs["j1"] = start.fs["j1"]

\* --------------------------------------------------------------- C10

\* What the batch end hands to the notifier, and the subject it gets.
HandoffRight ==
    (pc = "exit" /\ status = 0) =>
        /\ handed = happy
        /\ ~handed <=> errors > 0
        /\ subject = "Backup complete" => happy
        /\ subject = "BACKUP FAILED" => ~happy
        /\ subject \in {"none", "Backup complete", "BACKUP FAILED"}

\* Within one run of the script happy never goes from false back to true.
HappyStaysFalse == (~happy /\ run' = run) => ~happy'

\* C10: happy starts true, never changes from false back to true, is false
\* at the handoff to the notifier iff an error occurred in a job of the
\* batch, and the subject is the success subject exactly when happy is true.
C10_HappyFlag ==
    /\ [](errors = 0 => happy)
    /\ []HandoffRight
    /\ [][HappyStaysFalse]_vars

\* A batch with an error handed over as failed, mail on.
C10_Witness ==
    /\ pc = "exit"
    /\ status = 0
    /\ errors > 0
    /\ ~handed
    /\ subject = "BACKUP FAILED"

\* --------------------------------------------------------------- C11

RECURSIVE SumSizes(_)
\* The sum of the byte counts rsync reports for the folders at the
\* <<job position, folder position>> pairs of S.
SumSizes(S) ==
    IF S = {} THEN 0
    ELSE LET e == CHOOSE e \in S : TRUE
         IN  SizeOf[remote[sections[e[1]]][e[2]]] + SumSizes(S \ {e})

RECURSIVE SumSubtotals(_)
\* The sum of the subtotals of the <<job position, subtotal>> pairs of R.
SumSubtotals(R) ==
    IF R = {} THEN 0
    ELSE LET e == CHOOSE e \in R : TRUE
         IN  e[2] + SumSubtotals(R \ {e})

\* The targets of the job at position i whose sync exited 0 and whose
\* report was parsed.
SyncedOf(i) == {<<o[1], o[2]>> : o \in {o \in outcome : o[1] = i /\ o[3] = "ok"}}

\* C11: a job's subtotal is the sum of the parsed byte counts of exactly
\* those of its targets whose sync exited 0 and whose report parsed (a target
\* that failed in rotation, sync or parsing adds nothing), and the batch
\* total at the handoff is the sum of the subtotals of all jobs.
C11_ByteAggregation ==
    /\ (pc = "target" \/ InCycle) => subtotal = SumSizes(SyncedOf(jobIdx))
    /\ \A e \in reported : e[2] = SumSizes(SyncedOf(e[1]))
    /\ total = SumSubtotals(reported)
    /\ (pc = "exit" /\ status = 0) =>
          {e[1] : e \in reported} = discTried \ discFailed

\* Job j1 synced 1048576 and 2097152 bytes and failed on its third target,
\* job j2 synced 1048576 bytes: subtotal 3145728, total 4194304.
C11_Witness ==
    /\ pc = "exit"
    /\ <<2, 3, "sync">> \in outcome
    /\ <<2, 3145728>> \in reported
    /\ <<3, 1048576>> \in reported
    /\ total = 4194304

\* --------------------------------------------------------------- C12

\* The mount check is enabled and the backup volume is not mounted.
NotMounted == mount_check /\ ~ismount

\* Exit status 1 is the failed mount check's, taken before any discovery,
\* rotation or sync; every other run that ends, ends with status 0.
ExitRight ==
    /\ status \in {-1, 0, 1}
    /\ status = 1 =>
          /\ NotMounted
          /\ pc = "exit"
          /\ discTried = {} /\ tried = {} /\ outcome = {}
          /\ fs = start.fs /\ tp = start.tp
    /\ NotMounted => pc \in {"mount", "exit"}
    /\ pc = "exit" => status = (IF NotMounted THEN 1 ELSE 0)

\* C12: with the mount check enabled and the volume not mounted the batch
\* exits with status 1 before any job's discovery, rotation or sync; every
\* other run reaches its end with status 0, whatever jobs or targets
\* failed.
C12_MountCheckExit ==
    /\ []ExitRight
    /\ (pc = "mount" /\ ~NotMounted) ~> (pc = "exit" /\ status = 0)

\* A run that ended at the mount check.
C12_Witness ==
    /\ pc = "exit"
    /\ status = 1
    /\ NotMounted
    /\ subject # ""
    /\ discTried = {}

\* --------------------------------------------------------------- C13

\* C13 as stated: when the deletion of one generation fails during the
\* purge, every other generation at an index in [N-1, 98] is still deleted
\* in that cycle (at most the one that could not be deleted is left), and
\* the failure is reported as an error of the target.
C13_PurgeGoesOn ==
    (cyc.phase = "failed" /\ cyc.result = "purge") =>
        /\ Cardinality({i \in DOMAIN CycRing :
                           cyc.n - 1 <= i /\ i < PurgeCeiling}) <= 1
        /\ ~happy

\* --------------------------------------------------------------- C14

\* The directory the allocation of the cycle makes.
CycId ==
    <<run, CHOOSE i \in 1..Len(sections) : sections[i] = cyc.job, cyc.pos>>

\* Purge is entered from the head of the try block, shift from purge,
\* allocate from shift, sync from allocate.
StepsInOrder ==
    pc' # pc =>
        /\ (pc = "target" /\ pc' \in {"purge", "shift", "allocate", "sync"})
              => pc' = "purge"
        /\ pc' = "purge" => pc = "target"
        /\ pc' = "shift" => pc = "purge"
        /\ pc' = "allocate" => pc = "shift"
        /\ pc' = "sync" => pc = "allocate"

\* rsync is run only in a cycle whose purge, shift and allocate succeeded,
\* with the directory of that allocation as its destination.
SyncAfterRotation ==
    /\ pc = "sync" =>
          /\ cyc.rotated /\ cyc.phase = "rotated"
          /\ 0 \in DOMAIN ring
          /\ ring[0].id = CycId
    /\ cyc.result \in {"ok", "sync", "parse"} => cyc.rotated

\* A cycle that failed before its sync: no generation of this cycle exists
\* (rsync was given no destination), happy is false, and the target loop
\* stands at the next folder.
RotationFailureSkipsSync ==
    (cyc.phase = "failed"
        /\ cyc.result \in RotationSteps \cup {"sanity", "makedirs"}) =>
        /\ ~cyc.rotated
        /\ CycId \notin Ids(CycRing)
        /\ ~happy
        /\ (pc = "target" /\ cyc.job = job) => tIdx = cyc.pos + 1

\* C14: for each target the steps run in the order purge, shift, allocate,
\* sync; a sync is started only if the three rotation steps succeeded; when
\* a rotation step fails no transfer is attempted for that target in this
\* cycle, happy becomes false and the runner moves to the next target.
C14_StepOrder ==
    /\ [][StepsInOrder]_vars
    /\ []SyncAfterRotation
    /\ []RotationFailureSkipsSync

\* The allocation of the first target of job j1 failed, its second target
\* was rotated and synced.
C14_Witness ==
    /\ <<2, 1, "allocate">> \in outcome
    /\ <<2, 2, "ok">> \in outcome
    /\ cyc.pos = 2
    /\ cyc.rotated
    /\ ~happy

\* --------------------------------------------------------------- C15

\* C15 as stated: when backup_folder is no directory the job is aborted at
\* the check (no target after the one that met the check is attempted),
\* nothing is purged, shifted, allocated or synced, and happy is false when
\* the job has ended; when it is a directory, target_path exists before the
\* first target's rotation.
C15_RootFatalForJob ==
    /\ ~backup_isdir =>
          /\ \A e \in tried : e[2] = 1
          /\ fs = start.fs /\ tp = start.tp
          /\ \A e \in listed : e[1] < jobIdx => ~happy
    /\ (backup_isdir /\ InCycle) => job \in tp

\* --------------------------------------------------------------- C16

\* The name at position t of the listing of the job at position i.
ListedName(i, t) == remote[sections[i]][t]

\* The cycles of this run whose purge, shift and allocate all ran.
RotatedCycles == {o \in outcome : o[3] \in {"ok", "sync", "parse"}}

\* C16 as stated: within one job run no folder name undergoes two
\* purge/shift/allocate sequences, whatever the listing holds (a name may
\* occur in it more than once).
C16_RotatedOncePerJobRun ==
    \A o1 \in RotatedCycles : \A o2 \in RotatedCycles :
        (o1[1] = o2[1] /\ ListedName(o1[1], o1[2]) = ListedName(o2[1], o2[2]))
            => o1[2] = o2[2]

\* --------------------------------------------------------------- C17

Min(a, b) == IF a < b THEN a ELSE b

\* The script stands inside the rotation of the ring of folder f of job j.
Rotating(j, f) ==
    pc \in RotationSteps /\ j = job /\ f = folder

\* C17: for a target that had no generations before the first run and a
\* depth N in [1, 99], in a history in which no cycle of the target failed
\* in purge, shift or allocate, after c cycles whose rotation succeeded
\* (whether or not their sync did) the existing generation indices are
\* exactly 0..min(c, N)-1: generation 0 exists and the ring has no gap.
C17_ContiguousGrowth ==
    \A j \in JobNames : \A f \in FolderNames :
        (/\ DOMAIN origin[j][f] = {}
         /\ rotate_level[j] \in 1..PurgeCeiling
         /\ <<j, f>> \notin rotBad
         /\ ~Rotating(j, f)) =>
            DOMAIN fs[j][f] = 0..(Min(rotOk[j][f], rotate_level[j]) - 1)

\* Three cycles at depth 2 from an empty ring, the sync of the second one
\* failed: generations 0 and 1 exist.
C17_Witness ==
    /\ DOMAIN origin["j1"]["a"] = {}
    /\ rotate_level["j1"] = 2
    /\ rotOk["j1"]["a"] = 3
    /\ <<"j1", "a">> \notin rotBad
    /\ pc = "exit"
    /\ DOMAIN fs["j1"]["a"] = {0, 1}
    /\ fs["j1"]["a"][1].st = "partial"

\* --------------------------------------------------------------- C18

\* Before the cycle every generation of the ring was at an index in [0, 98].
PreWithinCeiling == DOMAIN cyc.pre \subseteq 0..(PurgeCeiling - 1)

\* C18: when purge and shift have completed without error on a ring whose
\* generations were all at indices in [0, 98], index 0 is vacant when the
\* allocation runs, for every depth N >= 1; so a failure of the creation of
\* generation 0 is never due to an existing generation 0.
C18_ZeroVacant ==
    /\ (pc = "allocate" /\ PreWithinCeiling) => 0 \notin DOMAIN ring
    /\ (cyc.phase = "failed" /\ cyc.result = "allocate" /\ PreWithinCeiling)
          => 0 \notin DOMAIN CycRing

\* Depth 100 on a ring full from 0 to 98: nothing was purged, every
\* generation was renamed, and index 0 is vacant at the allocation.
C18_Witness ==
    /\ pc = "allocate"
    /\ cyc.n = PurgeCeiling + 1
    /\ PreFullTo(PurgeCeiling - 1)
    /\ DOMAIN ring = 1..PurgeCeiling

\* --------------------------------------------------------------- C19

\* The ring r holds a generation whose sync completed successfully.
HasGoodBackup(r) == \E i \in DOMAIN r : r[i].st = "complete"

\* C19 as stated: when a target had a successfully synced generation
\* before a cycle, it has one at the end of that cycle, whether the cycle's
\* sync succeeded or failed, for every depth N >= 1.
C19_GoodBackupKept ==
    (cyc.rotated /\ cyc.phase \in {"synced", "failed"}
        /\ HasGoodBackup(cyc.pre)) => HasGoodBackup(CycRing)

====
